---------------------------- MODULE Spec2Model ----------------------------
(***************************************************************************)
(* A model of torchrec/models/dlrm.py: the binomial helper choose, the     *)
(* InteractionArch and OverArch modules and the DLRM constructor and       *)
(* forward pass.                                                           *)
(*                                                                         *)
(* A 2-d tensor of shape B x W is a sequence of B rows, each a sequence of *)
(* W integers; a 3-d tensor is a sequence of 2-d tensors.  An object is a  *)
(* record of its fields and Python's None is the record None.  An          *)
(* exception leaving a call is recorded by its class name in the variable  *)
(* raised, "None" when the call returned; a call that raised has the empty *)
(* tensor <<>> for its value.                                              *)
(***************************************************************************)
EXTENDS Integers, Sequences, FiniteSets, TLC

(***************************************************************************)
(* Bounds of the model.                                                    *)
(***************************************************************************)
\* choose is applied to every n in 0..MaxN and every k in -2..MaxN+2
MaxN == 8
\* InteractionArch is built with up to MaxF sparse feature names
MaxF == 3
\* widths of the dense vector and of the sparse slices are in 1..MaxD
MaxD == 2
\* an EmbeddingBagCollection holds up to MaxTables tables
MaxTables == 3

\* feature names
Names == {"f1", "f2", "f3"}
\* batch sizes B
BatchSizes == {1, 2}
\* the entries of the input tensors, and of the tensors the collaborators
\* return, are generated from a seed
Seeds == {1, 2}
\* the embedding_dim of a table
EmbeddingDims == {2, 8}
\* the feature_names of a table
FeatureNameLists == {<<>>, <<"f2">>, <<"f1", "f3">>, <<"f3", "f1">>}
\* dense_in_features
DenseInFeatures == {100}
\* dense_arch_layer_sizes
DenseLayerSizes == {<<>>, <<2>>, <<8>>, <<20>>, <<20, 8>>, <<8, 2>>}
\* over_arch_layer_sizes
OverLayerSizes == {<<>>, <<1>>, <<5, 1>>, <<4, 3, 2>>}

VARIABLES
    pc,                       \* position of the driver of the run
    raised,                   \* class of the exception that left the last call, or "None"
    choose_args,              \* [n, k]: the arguments of choose
    choose_frame,             \* [ntok, ktok, n]: choose's locals when it returns
    choose_ret,               \* what choose returned
    embedding_bag_collection, \* DLRM.__init__ argument: its embedding_bag_configs
    dense_in_features,        \* DLRM.__init__ argument
    dense_arch_layer_sizes,   \* DLRM.__init__ argument
    over_arch_layer_sizes,    \* DLRM.__init__ / OverArch.__init__ argument
    sparse_arch,              \* self.sparse_arch
    dense_arch,               \* self.dense_arch
    inter_arch,               \* self.inter_arch, or a free-standing InteractionArch
    over_arch,                \* self.over_arch, or a free-standing OverArch
    dense_features,           \* DLRM.forward argument
    sparse_features,          \* DLRM.forward argument
    embedded_dense,           \* DLRM.forward local; InteractionArch.forward's dense_features
    embedded_sparse,          \* DLRM.forward local; InteractionArch.forward's sparse_features
    sparse_read,              \* whether InteractionArch.forward read its sparse_features
    concatenated_dense,       \* DLRM.forward local; what InteractionArch.forward returned
    logits,                   \* DLRM.forward local and result
    calls                     \* the sub-modules DLRM.forward has called, in order

vars == <<pc, raised, choose_args, choose_frame, choose_ret,
          embedding_bag_collection, dense_in_features, dense_arch_layer_sizes,
          over_arch_layer_sizes, sparse_arch, dense_arch, inter_arch, over_arch,
          dense_features, sparse_features, embedded_dense, embedded_sparse,
          sparse_read, concatenated_dense, logits, calls>>

chooseVars == <<choose_args, choose_frame, choose_ret>>
configVars == <<embedding_bag_collection, dense_in_features, dense_arch_layer_sizes>>
moduleVars == <<sparse_arch, dense_arch, inter_arch, over_arch>>
forwardVars == <<dense_features, sparse_features, embedded_dense, embedded_sparse,
                 sparse_read, concatenated_dense, logits, calls>>

None == [class |-> "NoneType"]

Min(a, b) == IF a <= b THEN a ELSE b

\* the sequences over S of length 0..m
SeqsUpTo(S, m) == UNION {[1..l -> S] : l \in 0..m}

(***************************************************************************)
(* choose(n, k)                                                            *)
(***************************************************************************)
\* the loop "for t in range(1, last + 1)" from iteration t on
RECURSIVE chooseLoop(_, _, _, _, _)
chooseLoopNoDecrement(n, t, last, ntok, ktok) ==
    IF t > last THEN [ntok |-> ntok, ktok |-> ktok, n |-> n]
    ELSE chooseLoop(n, t + 1, last, ntok * n, ktok * t)

chooseLoop(n, t, last, ntok, ktok) ==
    IF t > last THEN [ntok |-> ntok, ktok |-> ktok, n |-> n]
    ELSE chooseLoop(n - 1, t + 1, last, ntok * n, ktok * t)

\* the locals of choose when it returns (ntok = ktok = 1 on the else branch)
chooseLocals(n, k) ==
    IF 0 <= k /\ k <= n
    THEN chooseLoop(n, 1, Min(k, n - k), 1, 1)
    ELSE [ntok |-> 1, ktok |-> 1, n |-> n]

choose(n, k) ==
    IF 0 <= k /\ k <= n
    THEN chooseLocals(n, k).ntok \div chooseLocals(n, k).ktok
    ELSE 0

(***************************************************************************)
(* Tensors                                                                 *)
(***************************************************************************)
\* x.shape of a 2-d tensor with at least one row
shape(x) == <<Len(x), Len(x[1])>>

RECURSIVE Flatten(_)
\* the elements of a 2-d tensor in row-major order
Flatten(x) == IF x = <<>> THEN <<>> ELSE Head(x) \o Flatten(Tail(x))

RECURSIVE cat1(_)
\* torch.cat(xs, dim=1) of a non-empty list of 2-d tensors with equally many rows
cat1(xs) ==
    IF Len(xs) = 1 THEN xs[1]
    ELSE LET rest == cat1(Tail(xs))
         IN  [b \in 1..Len(xs[1]) |-> xs[1][b] \o rest[b]]

\* x.reshape(B, F, D) of a 2-d tensor holding B * F * D elements
reshape(x, B, F, D) ==
    LET flat == Flatten(x)
    IN  [b \in 1..B |-> [f \in 1..F |->
            [d \in 1..D |-> flat[(b - 1) * F * D + (f - 1) * D + d]]]]

RECURSIVE dot(_, _)
\* the inner product of two vectors of one length
dot(u, v) == IF u = <<>> THEN 0 ELSE Head(u) * Head(v) + dot(Tail(u), Tail(v))

\* torch.bmm(x, torch.transpose(x, 1, 2)): per batch element, the Gram matrix of the rows
bmmTranspose(x) ==
    [b \in 1..Len(x) |-> [i \in 1..Len(x[b]) |-> [j \in 1..Len(x[b]) |->
        dot(x[b][i], x[b][j])]]]

RECURSIVE triuFrom(_, _, _, _, _)
\* the coordinates (i, j), 0-based, of the upper triangle from (i, j) on, row by row
triuFrom(i, j, row, col, offset) ==
    IF i >= row THEN <<>>
    ELSE IF j >= col THEN triuFrom(i + 1, i + 1 + offset, row, col, offset)
    ELSE <<<<i, j>>>> \o triuFrom(i, j + 1, row, col, offset)

triu_indicesWithDiagonal(row, col, offset) ==
    LET at == triuFrom(0, 0, row, col, 0)
    IN  <<[p \in 1..Len(at) |-> at[p][1]], [p \in 1..Len(at) |-> at[p][2]]>>

\* torch.triu_indices(row, col, offset) for offset >= 0: a 2 x N tensor, the row
\* coordinates then the column coordinates
triu_indices(row, col, offset) ==
    LET at == triuFrom(0, offset, row, col, offset)
    IN  <<[p \in 1..Len(at) |-> at[p][1]], [p \in 1..Len(at) |-> at[p][2]]>>

(***************************************************************************)
(* KeyedTensor: keys, length_per_key and a B x sum(length_per_key) tensor  *)
(* of values in which each key owns the next length_per_key columns.       *)
(***************************************************************************)
RECURSIVE sumTo(_, _)
sumTo(lengths, i) == IF i = 0 THEN 0 ELSE lengths[i] + sumTo(lengths, i - 1)

\* the columns of the i-th key
keySlice(kt, i) ==
    LET off == sumTo(kt.length_per_key, i - 1)
    IN  [b \in 1..Len(kt.values) |->
            SubSeq(kt.values[b], off + 1, off + kt.length_per_key[i])]

\* KeyedTensor.to_dict(): key -> its columns (the last occurrence of a repeated key)
to_dict(kt) ==
    [name \in {kt.keys[i] : i \in 1..Len(kt.keys)} |->
        LET last == CHOOSE i \in 1..Len(kt.keys) :
                        /\ kt.keys[i] = name
                        /\ \A j \in 1..Len(kt.keys) : kt.keys[j] = name => j <= i
        IN  keySlice(kt, last)]

(***************************************************************************)
(* InteractionArch                                                         *)
(***************************************************************************)
InteractionArch__init__(sparse_feature_names) ==
    [F |-> Len(sparse_feature_names),
     triu_indices |-> triu_indices(Len(sparse_feature_names) + 1,
                                   Len(sparse_feature_names) + 1, 1),
     sparse_feature_names |-> sparse_feature_names]

\* lines 193-196 walking the configured names backwards
gatherReversed(self, sparse) ==
    [i \in 1..self.F |-> to_dict(sparse)[self.sparse_feature_names[self.F + 1 - i]]]

\* lines 193-196: sparse[name] for each configured name, in the configured order
gatherByName(self, sparse) ==
    [i \in 1..self.F |-> to_dict(sparse)[self.sparse_feature_names[i]]]

\* the early return of lines 189-190 never taken
earlyReturnNever(self) == self.F < 0

\* the guard of line 189
earlyReturn(self) == self.F <= 0

\* InteractionArch.forward: [raised, value, read], read telling whether
\* sparse_features was read.  sparse[name] of a missing name raises KeyError;
\* torch.cat of no tensors and a reshape to another number of elements raise
\* RuntimeError
InteractionArch_forward(self, dense, sparse) ==
    IF earlyReturn(self)
    THEN [raised |-> "None", value |-> dense, read |-> FALSE]
    ELSE LET B == shape(dense)[1]
             D == shape(dense)[2]
         IN
         IF \E i \in 1..self.F :
                self.sparse_feature_names[i] \notin DOMAIN to_dict(sparse)
         THEN [raised |-> "KeyError", value |-> <<>>, read |-> TRUE]
         ELSE IF self.F = 0
         \* torch.cat of an empty list
         THEN [raised |-> "RuntimeError", value |-> <<>>, read |-> TRUE]
         ELSE LET sparse_cat == cat1(gatherByName(self, sparse))
              IN
              IF Len(sparse_cat) * Len(sparse_cat[1]) # B * self.F * D
              THEN [raised |-> "RuntimeError", value |-> <<>>, read |-> TRUE]
              ELSE LET sparse_values == reshape(sparse_cat, B, self.F, D)
                       combined_values ==
                           [b \in 1..B |-> <<dense[b]>> \o sparse_values[b]]
                       interactions == bmmTranspose(combined_values)
                       rows == self.triu_indices[1]
                       cols == self.triu_indices[2]
                       interactions_flat ==
                           [b \in 1..B |-> [p \in 1..Len(rows) |->
                               interactions[b][rows[p] + 1][cols[p] + 1]]]
                   IN  [raised |-> "None",
                        value |-> [b \in 1..B |-> dense[b] \o interactions_flat[b]],
                        read |-> TRUE]

(***************************************************************************)
(* MLP and EmbeddingBagCollection, the collaborators of torchrec.modules.  *)
(* Their learned values are opaque: an output's entries are generated from *)
(* a seed the caller draws.                                                *)
(***************************************************************************)
Entry(seed, r, b, d) == seed * (r + 1) + b * d + r * d

\* a B x W tensor
makeTensor(seed, r, B, W) == [b \in 1..B |-> [d \in 1..W |-> Entry(seed, r, b, d)]]

\* a KeyedTensor of B rows, the i-th key owning lengths[i] columns
makeKeyedTensor(seed, keys, lengths, B) ==
    [keys |-> keys,
     length_per_key |-> lengths,
     values |-> IF keys = <<>> THEN [b \in 1..B |-> <<>>]
                ELSE cat1([i \in 1..Len(keys) |-> makeTensor(seed, i, B, lengths[i])])]

MLP__init__(in_features, layer_sizes) ==
    [in_features |-> in_features, layer_sizes |-> layer_sizes]

\* MLP.forward: a B x in_features input gives a B x layer_sizes[-1] output
MLP_forward(self, x, seed) ==
    IF shape(x)[2] # self.in_features
    THEN [raised |-> "RuntimeError", value |-> <<>>]
    ELSE [raised |-> "None",
          value |-> makeTensor(seed, 0, shape(x)[1],
                               self.layer_sizes[Len(self.layer_sizes)])]

\* the feature names of the tables, table by table
RECURSIVE featureNamesOf(_)
featureNamesOf(configs) ==
    IF configs = <<>> THEN <<>>
    ELSE Head(configs).feature_names \o featureNamesOf(Tail(configs))

\* the embedding_dim of the table of each feature name, table by table
RECURSIVE featureDimsOf(_)
featureDimsOf(configs) ==
    IF configs = <<>> THEN <<>>
    ELSE [i \in 1..Len(Head(configs).feature_names) |-> Head(configs).embedding_dim]
         \o featureDimsOf(Tail(configs))

\* EmbeddingBagCollection.forward: one pooled embedding per feature name
EmbeddingBagCollection_forward(configs, features, seed) ==
    makeKeyedTensor(seed, featureNamesOf(configs), featureDimsOf(configs),
                    features.stride)

(***************************************************************************)
(* SparseArch and DenseArch                                                *)
(***************************************************************************)
SparseArch__init__(ebc) == [embedding_bag_collection |-> ebc]

SparseArch_forward(self, features, seed) ==
    EmbeddingBagCollection_forward(self.embedding_bag_collection, features, seed)

DenseArch__init__(in_features, layer_sizes) ==
    [model |-> MLP__init__(in_features, layer_sizes)]

DenseArch_forward(self, features, seed) == MLP_forward(self.model, features, seed)

(***************************************************************************)
(* OverArch                                                                *)
(***************************************************************************)
\* the guard of line 240 letting a single layer size through
tooFewLayersOnlyEmpty(layer_sizes) == Len(layer_sizes) <= 0

\* the guard of line 240
tooFewLayers(layer_sizes) == Len(layer_sizes) <= 1

\* OverArch.__init__: [raised, self]; layer_sizes[-2] of a list shorter than two
\* raises IndexError
OverArch__init__(in_features, layer_sizes) ==
    IF tooFewLayers(layer_sizes)
    THEN [raised |-> "ValueError", self |-> None]
    ELSE IF Len(layer_sizes) < 2
    THEN [raised |-> "IndexError", self |-> None]
    ELSE [raised |-> "None",
          self |-> [mlp |-> MLP__init__(in_features,
                                        SubSeq(layer_sizes, 1, Len(layer_sizes) - 1)),
                    linear |-> [in_features |-> layer_sizes[Len(layer_sizes) - 1],
                                out_features |-> layer_sizes[Len(layer_sizes)]]]]

\* OverArch.forward: the MLP, then nn.Linear
OverArch_forward(self, features, seed) ==
    LET hidden == MLP_forward(self.mlp, features, seed)
    IN  IF hidden.raised # "None" THEN hidden
        ELSE IF shape(hidden.value)[2] # self.linear.in_features
        THEN [raised |-> "RuntimeError", value |-> <<>>]
        ELSE [raised |-> "None",
              value |-> makeTensor(seed, 1, shape(hidden.value)[1],
                                   self.linear.out_features)]

(***************************************************************************)
(* DLRM                                                                    *)
(***************************************************************************)
\* the loop of lines 340-345 stopping one table early
sameDimAsPreviousButLast(configs) ==
    \A i \in 2..(Len(configs) - 1) :
        configs[i - 1].embedding_dim = configs[i].embedding_dim

\* the loop of lines 340-345: every table has the dimension of the one before it
sameDimAsPrevious(configs) ==
    \A i \in 2..Len(configs) :
        configs[i - 1].embedding_dim = configs[i].embedding_dim

\* line 349 comparing the first dense layer size
denseMismatchFirst(layer_sizes, embedding_dim) == layer_sizes[1] # embedding_dim

\* the condition of line 349
denseMismatch(layer_sizes, embedding_dim) ==
    layer_sizes[Len(layer_sizes)] # embedding_dim

RECURSIVE collectFeatureNames(_)
RECURSIVE collectFeatureNamesTablesReversed(_)
\* lines 355-359 with the tables taken last to first
collectFeatureNamesTablesReversed(configs) ==
    IF configs = <<>> THEN <<>>
    ELSE collectFeatureNamesTablesReversed(Tail(configs)) \o Head(configs).feature_names

\* the comprehension of lines 355-359
collectFeatureNames(configs) ==
    IF configs = <<>> THEN <<>>
    ELSE Head(configs).feature_names \o collectFeatureNames(Tail(configs))

\* lines 362-364 without the dense-vs-sparse terms
overInFeaturesPairsOnly(embedding_dim, num_feature_names) ==
    embedding_dim + choose(num_feature_names, 2)

\* lines 362-364
overInFeatures(embedding_dim, num_feature_names) ==
    embedding_dim + choose(num_feature_names, 2) + num_feature_names

NoModules ==
    [sparse_arch |-> None, dense_arch |-> None,
     inter_arch |-> None, over_arch |-> None]

\* DLRM.__init__: the exception it raises and the sub-modules it has assigned
DLRM__init__(configs, in_features, dense_sizes, over_sizes) ==
    IF ~(Len(configs) > 0)
    THEN [raised |-> "AssertionError"] @@ NoModules
    ELSE IF ~sameDimAsPrevious(configs)
    THEN [raised |-> "AssertionError"] @@ NoModules
    ELSE IF dense_sizes = <<>>
    THEN [raised |-> "IndexError"] @@ NoModules
    ELSE IF denseMismatch(dense_sizes, configs[1].embedding_dim)
    THEN [raised |-> "ValueError"] @@ NoModules
    ELSE LET embedding_dim == configs[1].embedding_dim
             feature_names == collectFeatureNames(configs)
             num_feature_names == Len(feature_names)
             over_in_features == overInFeatures(embedding_dim, num_feature_names)
             over == OverArch__init__(over_in_features, over_sizes)
         IN  [raised |-> over.raised,
              sparse_arch |-> SparseArch__init__(configs),
              dense_arch |-> DenseArch__init__(in_features, dense_sizes),
              inter_arch |-> InteractionArch__init__(feature_names),
              over_arch |-> over.self]

(***************************************************************************)
(* The runs                                                                *)
(***************************************************************************)
\* nothing has been called: no object exists, and the arguments and locals of
\* the calls to come are None, empty or 0
Init ==
    /\ pc = "start"
    /\ raised = "None"
    /\ choose_args = None
    /\ choose_frame = None
    /\ choose_ret = 0
    /\ embedding_bag_collection = <<>>
    /\ dense_in_features = 0
    /\ dense_arch_layer_sizes = <<>>
    /\ over_arch_layer_sizes = <<>>
    /\ sparse_arch = None
    /\ dense_arch = None
    /\ inter_arch = None
    /\ over_arch = None
    /\ dense_features = <<>>
    /\ sparse_features = None
    /\ embedded_dense = <<>>
    /\ embedded_sparse = None
    /\ sparse_read = FALSE
    /\ concatenated_dense = <<>>
    /\ logits = <<>>
    /\ calls = <<>>

\* a call choose(n, k)
CallChoose ==
    /\ pc = "start"
    /\ \E n \in 0..MaxN, k \in (0 - 2)..(MaxN + 2) :
        /\ choose_args' = [n |-> n, k |-> k]
        /\ choose_frame' = chooseLocals(n, k)
        /\ choose_ret' = choose(n, k)
    /\ pc' = "choose_done"
    /\ UNCHANGED <<raised, configVars, over_arch_layer_sizes, moduleVars, forwardVars>>

\* the sequences of distinct elements of S
InjectiveSeqs(S) ==
    {q \in SeqsUpTo(S, Cardinality(S)) :
        \A i, j \in 1..Len(q) : i # j => q[i] # q[j]}

\* InteractionArch(sparse_feature_names), free-standing
NewInteractionArch ==
    /\ pc = "start"
    /\ \E names \in SeqsUpTo(Names, MaxF) :
        inter_arch' = InteractionArch__init__(names)
    /\ pc' = "inter_ready"
    /\ UNCHANGED <<raised, chooseVars, configVars, over_arch_layer_sizes,
                   sparse_arch, dense_arch, over_arch, forwardVars>>

\* inter_arch(dense_features, sparse_features) on a B x D dense tensor and a
\* KeyedTensor of B rows whose keys each own W columns
CallInteractionArch ==
    /\ pc = "inter_ready"
    /\ \E seed \in Seeds, B \in BatchSizes, D \in 1..MaxD, W \in 1..MaxD,
          keys \in InjectiveSeqs(Names) :
        LET dense == makeTensor(seed, 0, B, D)
            sparse == makeKeyedTensor(seed, keys, [i \in 1..Len(keys) |-> W], B)
            out == InteractionArch_forward(inter_arch, dense, sparse)
        IN  /\ embedded_dense' = dense
            /\ embedded_sparse' = sparse
            /\ raised' = out.raised
            /\ sparse_read' = out.read
            /\ concatenated_dense' = out.value
    /\ pc' = "inter_done"
    /\ UNCHANGED <<chooseVars, configVars, over_arch_layer_sizes, moduleVars,
                   dense_features, sparse_features, logits, calls>>

\* OverArch(in_features, layer_sizes), free-standing
NewOverArch ==
    /\ pc = "start"
    /\ \E in_features \in 1..MaxD, layer_sizes \in OverLayerSizes :
        LET over == OverArch__init__(in_features, layer_sizes)
        IN  /\ over_arch_layer_sizes' = layer_sizes
            /\ over_arch' = over.self
            /\ raised' = over.raised
    /\ pc' = "over_constructed"
    /\ UNCHANGED <<chooseVars, configVars, sparse_arch, dense_arch, inter_arch,
                   forwardVars>>

TableConfigs == [embedding_dim : EmbeddingDims, feature_names : FeatureNameLists]

\* DLRM(embedding_bag_collection, dense_in_features, dense_arch_layer_sizes,
\*      over_arch_layer_sizes)
NewDLRM ==
    /\ pc = "start"
    /\ \E configs \in SeqsUpTo(TableConfigs, MaxTables),
          in_features \in DenseInFeatures,
          dense_sizes \in DenseLayerSizes,
          over_sizes \in OverLayerSizes :
        LET new == DLRM__init__(configs, in_features, dense_sizes, over_sizes)
        IN  /\ embedding_bag_collection' = configs
            /\ dense_in_features' = in_features
            /\ dense_arch_layer_sizes' = dense_sizes
            /\ over_arch_layer_sizes' = over_sizes
            /\ raised' = new.raised
            /\ sparse_arch' = new.sparse_arch
            /\ dense_arch' = new.dense_arch
            /\ inter_arch' = new.inter_arch
            /\ over_arch' = new.over_arch
    /\ pc' = "constructed"
    /\ UNCHANGED <<chooseVars, forwardVars>>

\* model(dense_features, sparse_features) on a constructed model: a
\* B x dense_in_features tensor and a KeyedJaggedTensor of B examples holding
\* the model's feature names
CallForward ==
    /\ pc = "constructed"
    /\ raised = "None"
    /\ \E seed \in Seeds, B \in BatchSizes :
        /\ dense_features' = makeTensor(seed, 0, B, dense_in_features)
        /\ sparse_features' = [keys |-> featureNamesOf(embedding_bag_collection),
                               stride |-> B, seed |-> seed]
    /\ pc' = "forward_dense"
    /\ UNCHANGED <<raised, chooseVars, configVars, over_arch_layer_sizes, moduleVars,
                   embedded_dense, embedded_sparse, sparse_read, concatenated_dense,
                   logits, calls>>

\* line 384
ForwardDenseArch ==
    /\ pc = "forward_dense"
    /\ LET out == DenseArch_forward(dense_arch, dense_features, sparse_features.seed)
       IN  /\ embedded_dense' = out.value
           /\ raised' = out.raised
           /\ pc' = IF out.raised = "None" THEN "forward_sparse" ELSE "raised"
    /\ calls' = Append(calls, "dense_arch")
    /\ UNCHANGED <<chooseVars, configVars, over_arch_layer_sizes, moduleVars,
                   dense_features, sparse_features, embedded_sparse, sparse_read,
                   concatenated_dense, logits>>

\* line 385
ForwardSparseArch ==
    /\ pc = "forward_sparse"
    /\ embedded_sparse' =
           SparseArch_forward(sparse_arch, sparse_features, sparse_features.seed)
    /\ pc' = "forward_inter"
    /\ calls' = Append(calls, "sparse_arch")
    /\ UNCHANGED <<raised, chooseVars, configVars, over_arch_layer_sizes, moduleVars,
                   dense_features, sparse_features, embedded_dense, sparse_read,
                   concatenated_dense, logits>>

\* lines 386-388
ForwardInteractionArch ==
    /\ pc = "forward_inter"
    /\ LET out == InteractionArch_forward(inter_arch, embedded_dense, embedded_sparse)
       IN  /\ concatenated_dense' = out.value
           /\ sparse_read' = out.read
           /\ raised' = out.raised
           /\ pc' = IF out.raised = "None" THEN "forward_over" ELSE "raised"
    /\ calls' = Append(calls, "inter_arch")
    /\ UNCHANGED <<chooseVars, configVars, over_arch_layer_sizes, moduleVars,
                   dense_features, sparse_features, embedded_dense, embedded_sparse,
                   logits>>

\* lines 389-390
ForwardOverArch ==
    /\ pc = "forward_over"
    /\ LET out == OverArch_forward(over_arch, concatenated_dense, sparse_features.seed)
       IN  /\ logits' = out.value
           /\ raised' = out.raised
           /\ pc' = IF out.raised = "None" THEN "done" ELSE "raised"
    /\ calls' = Append(calls, "over_arch")
    /\ UNCHANGED <<chooseVars, configVars, over_arch_layer_sizes, moduleVars,
                   dense_features, sparse_features, embedded_dense, embedded_sparse,
                   sparse_read, concatenated_dense>>

NextChoose == CallChoose
SpecChoose == Init /\ [][NextChoose]_vars

NextInteraction == NewInteractionArch \/ CallInteractionArch
SpecInteraction == Init /\ [][NextInteraction]_vars

NextDLRM ==
    \/ NewOverArch
    \/ NewDLRM
    \/ CallForward
    \/ ForwardDenseArch
    \/ ForwardSparseArch
    \/ ForwardInteractionArch
    \/ ForwardOverArch
SpecDLRM == Init /\ [][NextDLRM]_vars

Next == NextChoose \/ NextInteraction \/ NextDLRM
Spec == Init /\ [][Next]_vars

(***************************************************************************)
(* choose: claim C7                                                        *)
(***************************************************************************)
RECURSIVE Binomial(_, _)
\* Pascal's rule
Binomial(n, k) ==
    IF k < 0 \/ k > n THEN 0
    ELSE IF k = 0 \/ k = n THEN 1
    ELSE Binomial(n - 1, k - 1) + Binomial(n - 1, k)

\* C7: for n >= 0, choose(n, k) is the binomial coefficient when 0 <= k <= n
\* (1 for k = 0 and for k = n, 10 for choose(5, 2)), the division of line 46
\* leaves no remainder, and choose(n, k) is 0 when k > n or k < 0.
C7_ChooseIsBinomial ==
    pc = "choose_done" =>
        LET n == choose_args.n
            k == choose_args.k
        IN  /\ (0 <= k /\ k <= n) =>
                /\ choose_ret = Binomial(n, k)
                /\ choose_frame.ntok % choose_frame.ktok = 0
            /\ k = 0 => choose_ret = 1
            /\ k = n => choose_ret = 1
            /\ (n = 5 /\ k = 2) => choose_ret = 10
            /\ (k > n \/ k < 0) => choose_ret = 0

C7_Witness ==
    /\ pc = "choose_done"
    /\ choose_args = [n |-> 5, k |-> 2]
    /\ choose_ret = 10
    /\ choose_frame.ktok = 2

(***************************************************************************)
(* InteractionArch: claims C1, C2, C3                                      *)
(***************************************************************************)
\* every configured name is a key of the sparse input and owns D columns
SlicesHaveWidth(D) ==
    \A i \in 1..inter_arch.F :
        /\ inter_arch.sparse_feature_names[i] \in DOMAIN to_dict(embedded_sparse)
        /\ shape(to_dict(embedded_sparse)[inter_arch.sparse_feature_names[i]])[2] = D

\* C1: on a B x D dense input and sparse slices of width D for each of the F
\* configured names, F >= 0, forward returns a tensor of shape
\* B x (D + F + F*(F-1)/2).
C1_OutputWidth ==
    (pc = "inter_done" /\ SlicesHaveWidth(shape(embedded_dense)[2])) =>
        LET B == shape(embedded_dense)[1]
            D == shape(embedded_dense)[2]
            F == inter_arch.F
        IN  /\ raised = "None"
            /\ Len(concatenated_dense) = B
            /\ \A b \in 1..B :
                   Len(concatenated_dense[b]) = D + F + (F * (F - 1)) \div 2

C1_Witness ==
    /\ pc = "inter_done"
    /\ inter_arch.F = 3
    /\ shape(embedded_dense) = <<2, 2>>
    /\ raised = "None"
    /\ shape(concatenated_dense) = <<2, 8>>

\* v_0 is the dense vector of batch element b, v_k the slice of the k-th
\* configured name
RowVector(b, k) ==
    IF k = 0 THEN embedded_dense[b]
    ELSE to_dict(embedded_sparse)[inter_arch.sparse_feature_names[k]][b]

\* the place of <v_i, v_j>, i < j, among the pairs of 0..F taken row-major, from 1
PairPosition(i, j, F) == i * F - (i * (i - 1)) \div 2 + (j - i)

\* C2: with F >= 1 each output row is the dense vector followed by <v_i, v_j>
\* for all 0 <= i < j <= F in row-major order; the dense-vs-k-th-name product
\* is at position D + (k-1) counted from 0, no <v_i, v_i> appears and every
\* pair i < j appears exactly once.
C2_RowMajorPairs ==
    (/\ pc = "inter_done"
     /\ inter_arch.F >= 1
     /\ SlicesHaveWidth(shape(embedded_dense)[2])) =>
        LET B == shape(embedded_dense)[1]
            D == shape(embedded_dense)[2]
            F == inter_arch.F
            rows == inter_arch.triu_indices[1]
            cols == inter_arch.triu_indices[2]
        IN  /\ raised = "None"
            /\ \A b \in 1..B :
                /\ SubSeq(concatenated_dense[b], 1, D) = embedded_dense[b]
                /\ Len(concatenated_dense[b]) = D + (F * (F + 1)) \div 2
                /\ \A i \in 0..F, j \in 0..F :
                       i < j => concatenated_dense[b][D + PairPosition(i, j, F)]
                                    = dot(RowVector(b, i), RowVector(b, j))
                /\ \A k \in 1..F :
                       concatenated_dense[b][D + (k - 1) + 1]
                           = dot(embedded_dense[b], RowVector(b, k))
            /\ \A p \in 1..Len(rows) : rows[p] < cols[p]
            /\ \A p, q \in 1..Len(rows) :
                   (rows[p] = rows[q] /\ cols[p] = cols[q]) => p = q
            /\ \A i \in 0..F, j \in 0..F :
                   i < j => \E p \in 1..Len(rows) : rows[p] = i /\ cols[p] = j

C2_Witness ==
    /\ pc = "inter_done"
    /\ inter_arch.sparse_feature_names = <<"f3", "f1", "f2">>
    /\ embedded_sparse.keys = <<"f1", "f2", "f3">>
    /\ shape(embedded_dense) = <<2, 2>>
    /\ raised = "None"
    /\ concatenated_dense[2][2 + 1] = dot(embedded_dense[2], keySlice(embedded_sparse, 3)[2])
    /\ concatenated_dense[2][2 + 6] = dot(keySlice(embedded_sparse, 1)[2],
                                          keySlice(embedded_sparse, 2)[2])

\* C3: built with no names (F = 0), forward returns its dense input unchanged
\* for every dense input and every sparse_features argument, without reading
\* the sparse features and without raising.
C3_IdentityWithoutNames ==
    (pc = "inter_done" /\ inter_arch.F = 0) =>
        /\ raised = "None"
        /\ concatenated_dense = embedded_dense
        /\ ~sparse_read

C3_Witness ==
    /\ pc = "inter_done"
    /\ inter_arch.sparse_feature_names = <<>>
    /\ embedded_sparse.keys = <<"f2", "f1">>
    /\ embedded_sparse.length_per_key = <<1, 1>>
    /\ shape(embedded_dense) = <<2, 2>>
    /\ concatenated_dense = embedded_dense
    /\ ~sparse_read

(***************************************************************************)
(* DLRM and OverArch: claims C4, C5, C6, C8, C9, C10                       *)
(***************************************************************************)
\* DLRM.__init__ has run
Constructed ==
    pc \in {"constructed", "forward_dense", "forward_sparse", "forward_inter",
            "forward_over", "done", "raised"}

NoSubModules ==
    /\ sparse_arch = None
    /\ dense_arch = None
    /\ inter_arch = None
    /\ over_arch = None

\* at least one table, and all tables of one embedding_dim
OneDimension ==
    /\ Len(embedding_bag_collection) >= 1
    /\ \A i, j \in 1..Len(embedding_bag_collection) :
           embedding_bag_collection[i].embedding_dim
               = embedding_bag_collection[j].embedding_dim

\* C4: construction fails whenever two tables, at any positions, differ in
\* embedding_dim, and then no sub-module has been set and forward is never run.
C4_MixedDimensionsRejected ==
    (/\ Constructed
     /\ \E i, j \in 1..Len(embedding_bag_collection) :
            embedding_bag_collection[i].embedding_dim
                # embedding_bag_collection[j].embedding_dim) =>
        /\ raised = "AssertionError"
        /\ NoSubModules
        /\ pc = "constructed"

C4_Witness ==
    /\ Constructed
    /\ Len(embedding_bag_collection) = 3
    /\ embedding_bag_collection[1].embedding_dim = 8
    /\ embedding_bag_collection[2].embedding_dim = 8
    /\ embedding_bag_collection[3].embedding_dim = 2
    /\ raised = "AssertionError"
    /\ NoSubModules

ValidUpToOverArch ==
    /\ OneDimension
    /\ dense_arch_layer_sizes # <<>>
    /\ dense_arch_layer_sizes[Len(dense_arch_layer_sizes)]
           = embedding_bag_collection[1].embedding_dim

\* C6: OverArch construction raises ValueError if and only if fewer than two
\* layer sizes are given, and DLRM construction with otherwise valid arguments
\* fails when over_arch_layer_sizes has fewer than two elements.
C6_OverArchNeedsTwoLayers ==
    /\ pc = "over_constructed" =>
        /\ raised = "ValueError" <=> Len(over_arch_layer_sizes) < 2
        /\ raised = "None" <=> over_arch # None
        /\ raised \in {"ValueError", "None"}
    /\ (Constructed /\ ValidUpToOverArch /\ Len(over_arch_layer_sizes) < 2) =>
        /\ raised = "ValueError"
        /\ over_arch = None
        /\ pc = "constructed"

C6_Witness ==
    /\ Constructed
    /\ ValidUpToOverArch
    /\ over_arch_layer_sizes = <<1>>
    /\ raised = "ValueError"
    /\ over_arch = None

\* the arguments of the example of lines 286-307
DocstringExample ==
    /\ embedding_bag_collection =
           <<[embedding_dim |-> 8, feature_names |-> <<"f1", "f3">>],
             [embedding_dim |-> 8, feature_names |-> <<"f2">>]>>
    /\ dense_in_features = 100
    /\ dense_arch_layer_sizes = <<20>>
    /\ over_arch_layer_sizes = <<5, 1>>

\* C8: the example of the DLRM docstring (two tables of dimension 8 with
\* feature names [f1, f3] and [f2], dense_in_features 100,
\* dense_arch_layer_sizes [20], over_arch_layer_sizes [5, 1]) passes the
\* validation of the constructor and gives a model.
C8_DocstringExampleConstructs ==
    (Constructed /\ DocstringExample) => (raised = "None" /\ over_arch # None)

\* the names of table t start after those of the tables before it
RECURSIVE NamesBefore(_)
NamesBefore(t) ==
    IF t <= 1 THEN 0
    ELSE NamesBefore(t - 1) + Len(embedding_bag_collection[t - 1].feature_names)

\* C9: on successful construction the names handed to InteractionArch are the
\* feature_names of the tables, tables in configured order and names in their
\* order within a table, nothing reordered, dropped or merged, and the over
\* arch is built for embedding_dim + F + C(F,2) inputs, F the length of that
\* list.
C9_FeatureNamesInTableOrder ==
    (Constructed /\ raised = "None") =>
        LET T == Len(embedding_bag_collection)
            names == inter_arch.sparse_feature_names
            F == Len(names)
        IN  /\ F = NamesBefore(T + 1)
            /\ \A t \in 1..T :
                   \A i \in 1..Len(embedding_bag_collection[t].feature_names) :
                       names[NamesBefore(t) + i]
                           = embedding_bag_collection[t].feature_names[i]
            /\ inter_arch.F = F
            /\ over_arch.mlp.in_features
                   = embedding_bag_collection[1].embedding_dim + F + (F * (F - 1)) \div 2

C9_Witness ==
    /\ Constructed
    /\ raised = "None"
    /\ Len(embedding_bag_collection) = 3
    /\ inter_arch.sparse_feature_names = <<"f3", "f1", "f2", "f1", "f3">>
    /\ over_arch.mlp.in_features = 8 + 5 + 10

ForwardOrder == <<"dense_arch", "sparse_arch", "inter_arch", "over_arch">>

\* C10: for every configuration that passes construction, forward runs
\* DenseArch, SparseArch, InteractionArch, OverArch in that order, none of
\* them raises, the width InteractionArch produces is the in_features the over
\* arch was built with, and the result has shape B x over_arch_layer_sizes[-1].
C10_ForwardShapes ==
    /\ pc # "raised"
    /\ Constructed => calls = SubSeq(ForwardOrder, 1, Len(calls))
    /\ pc = "forward_over" =>
        /\ calls = SubSeq(ForwardOrder, 1, 3)
        /\ Len(concatenated_dense) = sparse_features.stride
        /\ \A b \in 1..Len(concatenated_dense) :
               Len(concatenated_dense[b]) = over_arch.mlp.in_features
    /\ pc = "done" =>
        /\ raised = "None"
        /\ calls = ForwardOrder
        /\ shape(logits) = <<sparse_features.stride,
                             over_arch_layer_sizes[Len(over_arch_layer_sizes)]>>
        /\ shape(dense_features)[1] = sparse_features.stride

C10_Witness ==
    /\ pc = "done"
    /\ Len(embedding_bag_collection) = 2
    /\ inter_arch.F = 3
    /\ over_arch_layer_sizes = <<5, 1>>
    /\ sparse_features.stride = 2
    /\ shape(concatenated_dense) = <<2, 8 + 3 + 3>>
    /\ shape(logits) = <<2, 1>>

=============================================================================
